---------------------------- MODULE Spec2Model ----------------------------
(***************************************************************************)
(* A model of lmdeploy/pytorch/models/dbrx.py: the tensor-parallel patch   *)
(* layer of the DBRX mixture-of-experts transformer.                       *)
(*                                                                         *)
(*   SpecExperts    PatchedDbrxExpertGLU: _load_weights, _update_model_fn  *)
(*                  on one module per rank.                                *)
(*   SpecAttention  PatchedDbrxAttention.forward on one module, step by    *)
(*                  step, over a paged KV cache that lives across calls.   *)
(*   SpecQKV        PatchedDbrxAttention._load_weights and the widths      *)
(*                  __qkv_proj splits the local projection by, per rank.   *)
(*   SpecRanks      PatchedDbrxModel's forward pass on every rank, with    *)
(*                  the two all-reduce hooks of each block.                *)
(*                                                                         *)
(* Tensors are sequences: a 2-D tensor is a sequence of rows, a 3-D tensor *)
(* a sequence of 2-D tensors.  A checkpoint element is the triple          *)
(* <<name, row, column>> of its own coordinates, so every element of every *)
(* shard and of every repacked buffer can be traced back to where it came  *)
(* from.  Indices are 1-based where PyTorch's are 0-based; ranks keep      *)
(* their 0-based numbering.                                                *)
(***************************************************************************)
EXTENDS Integers, Sequences, FiniteSets, TLC

\* Bounds of the model.
MaxExperts == 2
MaxFfn == 3
MaxHidden == 2
MaxWorld == 2
MaxSeqs == 1        \* sequences (cache slots) the scheduler batches
MaxKv == 3          \* cache positions per sequence
MaxQ == 2           \* query tokens of one sequence in one call
MaxRotaryDim == 3   \* rotary_emb.dim
MaxRotaryBase == 2  \* rotary_emb.base
MaxHeads == 4       \* num_heads
MaxHeadDim == 2     \* head_dim
MaxLayers == 2      \* len(self.blocks)
MaxData == 1        \* activations take the values 0 .. MaxData

VARIABLES
    \* configuration, fixed at construction
    moe_num_experts,    \* self.moe_num_experts
    ffn_hidden_size,    \* rows of one expert in w1 / v1 / w2
    hidden_size,        \* columns of w1 / v1 / w2
    world_size,         \* number of tensor-parallel ranks
    \* PatchedDbrxExpertGLU, one module per rank (functions of the rank)
    w1, v1, w2,         \* load representation; Absent when not registered
    gate_up_weights,    \* compute representation; Absent when not registered
    down_weights,
    glu_call,           \* the last call on the module and how it ended
    \* PatchedDbrxAttention (one module) and what its forward works on
    rotary_base,        \* self.rotary_emb.base
    rotary_dim,         \* self.rotary_emb.dim
    clip_qkv,           \* self.clip_qkv is not None
    inv_freq,           \* self.rotary_emb.inv_freq; None until computed
    key_cache,          \* past_key_value[0]: slot -> position -> entry
    value_cache,        \* past_key_value[1]
    history,            \* the scheduler's KV length of every slot
    context,            \* self.context.context of the call in progress
    pc,                 \* the next step of the forward call in progress
    query_states,       \* locals of _contiguous_batching_forward_impl
    key_states,
    value_states,
    hidden_states,      \* the tokens the call was given
    attn_result,        \* the output of the call, until the caller takes it
    \* PatchedDbrxAttention, shapes, one module per rank
    num_heads,          \* self.num_heads
    num_key_value_heads, \* self.num_key_value_heads
    head_dim,           \* self.head_dim
    Wqkv,               \* rank -> widths of the Q, K, V rows of self.Wqkv
    out_proj,           \* rank -> input width of self.out_proj
    attn_load,          \* rank -> how _load_weights ended
    qkv_split,          \* rank -> what the last __qkv_proj split gave
    \* PatchedDbrxModel, the forward pass of every rank
    num_layers,         \* len(self.blocks)
    rank_pc,            \* rank -> where its forward pass is
    outputs,            \* rank -> the output of the block it just ran
    entered             \* rank -> the all-reduces it has entered, in order

cfg_vars == <<moe_num_experts, ffn_hidden_size, hidden_size, world_size>>
glu_vars == <<w1, v1, w2, gate_up_weights, down_weights, glu_call>>
attn_cfg_vars == <<rotary_base, rotary_dim, clip_qkv>>
cache_vars == <<key_cache, value_cache>>
local_vars == <<hidden_states, query_states, key_states, value_states>>
attn_vars == <<attn_cfg_vars, inv_freq, cache_vars, history, context, pc,
               local_vars, attn_result>>
qkv_vars == <<num_heads, num_key_value_heads, head_dim, Wqkv, out_proj,
              attn_load, qkv_split>>
rank_vars == <<num_layers, rank_pc, outputs, entered>>
vars == <<cfg_vars, glu_vars, attn_vars, qkv_vars, rank_vars>>

\* What the actions of one component leave alone.
not_glu_vars == <<cfg_vars, attn_vars, qkv_vars, rank_vars>>
not_attn_vars == <<cfg_vars, glu_vars, qkv_vars, rank_vars>>
not_qkv_vars == <<cfg_vars, glu_vars, attn_vars, rank_vars>>
not_rank_vars == <<cfg_vars, glu_vars, attn_vars, qkv_vars>>

Ranks == 0 .. (world_size - 1)

ParamNames == <<"w1", "v1", "w2">>

\* An attribute that is not registered on the module (after delattr, or a
\* buffer that was never registered): getattr raises AttributeError.
Absent == << >>

\* ------------------------------------------------------------------------
\* Tensor helpers (torch semantics)
\* ------------------------------------------------------------------------

CeilDiv(a, b) == (a + b - 1) \div b

Min(a, b) == IF a < b THEN a ELSE b

\* The tensor the weight source holds under `name`: shape
\* (moe_num_experts * ffn_hidden_size, hidden_size).
Checkpoint(name) ==
    [i \in 1 .. (moe_num_experts * ffn_hidden_size) |->
        [j \in 1 .. hidden_size |-> <<name, i, j>>]]

\* The parameter the constructor leaves on the module before any load:
\* the full shape, no checkpoint data.
Uninitialized ==
    [i \in 1 .. (moe_num_experts * ffn_hidden_size) |->
        [j \in 1 .. hidden_size |-> <<"uninit", 0, 0>>]]

\* t.unflatten(0, (n, -1)): rows (e-1)*k+1 .. e*k become block e.
Unflatten(t, n) ==
    LET k == Len(t) \div n
    IN  [e \in 1 .. n |-> [f \in 1 .. k |-> t[(e - 1) * k + f]]]

\* t.flatten(0, 1)
Flatten(t3) ==
    LET k == Len(t3[1])
    IN  [i \in 1 .. (Len(t3) * k) |-> t3[((i - 1) \div k) + 1][((i - 1) % k) + 1]]

\* torch.chunk along an axis of size n into `chunks` pieces: every piece has
\* ceil(n / chunks) entries except the last; fewer pieces than asked for are
\* returned when that does not fill them all.
ChunkSize(n, chunks) == CeilDiv(n, chunks)

NumChunks(n, chunks) == CeilDiv(n, ChunkSize(n, chunks))

\* First and last (1-based, inclusive) index of piece number k (0-based).
ChunkLo(n, chunks, k) == k * ChunkSize(n, chunks) + 1

ChunkHi(n, chunks, k) == Min((k + 1) * ChunkSize(n, chunks), n)

\* t3.chunk(chunks, 1)[k] for a 3-D tensor t3
ChunkDim1(t3, chunks, k) ==
    LET n  == Len(t3[1])
        lo == ChunkLo(n, chunks, k)
        hi == ChunkHi(n, chunks, k)
    IN  [e \in 1 .. Len(t3) |-> [f \in 1 .. (hi - lo + 1) |-> t3[e][lo + f - 1]]]

\* m.transpose(0, 1) of a 2-D tensor
Transpose(m) ==
    [i \in 1 .. Len(m[1]) |-> [j \in 1 .. Len(m) |-> m[j][i]]]

\* ------------------------------------------------------------------------
\* PatchedDbrxExpertGLU._load_weights
\* ------------------------------------------------------------------------

\* Mutant of Partition: every rank keeps piece 0 instead of piece `rank`.
PartitionIgnoresRank(name, rank) ==
    Flatten(ChunkDim1(Unflatten(Checkpoint(name), moe_num_experts),
                      world_size, 0))

\* __partition's new parameter: the loader's tensor unflattened per expert,
\* chunked along axis 1 into world_size pieces, piece `rank` kept, flattened.
Partition(name, rank) ==
    Flatten(ChunkDim1(Unflatten(Checkpoint(name), moe_num_experts),
                      world_size, rank))

\* Whether __partition(name) gets as far as register_parameter:
\* loader.pop(name) raises KeyError when the loader has no such tensor, and
\* chunk(...)[rank] raises IndexError when chunk returned fewer pieces.
PartitionError(name, names, rank) ==
    IF name \notin names THEN "KeyError"
    ELSE IF rank >= NumChunks(ffn_hidden_size, world_size) THEN "IndexError"
    ELSE "ok"

\* How many of w1, v1, w2 (in this order) are partitioned before the first
\* exception ends the call.
LoadedCount(names, rank) ==
    IF PartitionError("w1", names, rank) # "ok" THEN 0
    ELSE IF PartitionError("v1", names, rank) # "ok" THEN 1
    ELSE IF PartitionError("w2", names, rank) # "ok" THEN 2
    ELSE 3

LoadOutcome(names, rank) ==
    LET n == LoadedCount(names, rank)
    IN  IF n = 3 THEN "ok" ELSE PartitionError(ParamNames[n + 1], names, rank)

\* _load_weights(loader, rank, world_size, device) on rank's module; `names`
\* are the tensors the loader holds.
LoadWeights(rank, names) ==
    LET n == LoadedCount(names, rank)
    IN  /\ w1' = IF n >= 1 THEN [w1 EXCEPT ![rank] = Partition("w1", rank)] ELSE w1
        /\ v1' = IF n >= 2 THEN [v1 EXCEPT ![rank] = Partition("v1", rank)] ELSE v1
        /\ w2' = IF n >= 3 THEN [w2 EXCEPT ![rank] = Partition("w2", rank)] ELSE w2
        /\ glu_call' = [glu_call EXCEPT ![rank] =
                            [op |-> "load", outcome |-> LoadOutcome(names, rank)]]
        /\ UNCHANGED <<gate_up_weights, down_weights, not_glu_vars>>

\* ------------------------------------------------------------------------
\* PatchedDbrxExpertGLU._update_model_fn
\* ------------------------------------------------------------------------

\* Mutant of GateUp: v1's rows first, w1's rows after them.
GateUpSwapped(pw1, pv1) ==
    LET ffn == Len(pw1) \div moe_num_experts
        g   == Unflatten(pw1, moe_num_experts)
        u   == Unflatten(pv1, moe_num_experts)
    IN  [e \in 1 .. moe_num_experts |->
            [i \in 1 .. (2 * ffn) |-> IF i <= ffn THEN u[e][i] ELSE g[e][i - ffn]]]

\* gate_up_weights as lines 188-195 fill it: per expert, w1's rows first and
\* v1's rows after them.
GateUp(pw1, pv1) ==
    LET ffn == Len(pw1) \div moe_num_experts
        g   == Unflatten(pw1, moe_num_experts)
        u   == Unflatten(pv1, moe_num_experts)
    IN  [e \in 1 .. moe_num_experts |->
            [i \in 1 .. (2 * ffn) |-> IF i <= ffn THEN g[e][i] ELSE u[e][i - ffn]]]

\* down_weights as lines 198-199 build it.
Down(pw2) ==
    LET d == Unflatten(pw2, moe_num_experts)
    IN  [e \in 1 .. moe_num_experts |-> Transpose(d[e])]

\* copy_ of v1's blocks into gate_up_weights[:, ffn:] needs matching shapes
\* (a source block of one row would be broadcast).
CopyShapesOk(pw1, pv1) ==
    LET ffn == Len(pw1) \div moe_num_experts
        fv  == Len(pv1) \div moe_num_experts
    IN  /\ Len(pv1) % moe_num_experts = 0
        /\ fv = ffn
        /\ Len(pv1[1]) = Len(pw1[1])

\* Where _update_model_fn stops on rank's module:
\*   "w1"   self.w1 is not registered (line 188), nothing done
\*   "v1"   self.v1 is not registered (line 195), nothing deleted yet
\*   "copy" the copy_ of line 194 rejects the shapes, nothing deleted yet
\*   "w2"   self.w2 is not registered (line 198), w1 and v1 already deleted
\*   "ok"   the call returns
UpdateStop(rank) ==
    IF w1[rank] = Absent THEN "w1"
    ELSE IF v1[rank] = Absent THEN "v1"
    ELSE IF ~CopyShapesOk(w1[rank], v1[rank]) THEN "copy"
    ELSE IF w2[rank] = Absent THEN "w2"
    ELSE "ok"

UpdateOutcome(stop) ==
    IF stop = "ok" THEN "ok"
    ELSE IF stop = "copy" THEN "RuntimeError"
    ELSE "AttributeError"

\* Mutant of UpdateModelFn: a repack that finds w1 gone does not fail but
\* drops the buffers it registered before.
UpdateModelFnDropsBuffers(rank) ==
    LET stop == UpdateStop(rank)
    IN  /\ w1' = IF stop \in {"w2", "ok"} THEN [w1 EXCEPT ![rank] = Absent] ELSE w1
        /\ v1' = IF stop \in {"w2", "ok"} THEN [v1 EXCEPT ![rank] = Absent] ELSE v1
        /\ w2' = IF stop = "ok" THEN [w2 EXCEPT ![rank] = Absent] ELSE w2
        /\ gate_up_weights' =
              IF stop = "ok"
              THEN [gate_up_weights EXCEPT ![rank] = GateUp(w1[rank], v1[rank])]
              ELSE IF stop = "w1" THEN [gate_up_weights EXCEPT ![rank] = Absent]
              ELSE gate_up_weights
        /\ down_weights' =
              IF stop = "ok"
              THEN [down_weights EXCEPT ![rank] = Down(w2[rank])]
              ELSE IF stop = "w1" THEN [down_weights EXCEPT ![rank] = Absent]
              ELSE down_weights
        /\ glu_call' = [glu_call EXCEPT ![rank] =
                            [op |-> "update",
                             outcome |-> IF stop = "w1" THEN "ok" ELSE UpdateOutcome(stop)]]
        /\ UNCHANGED <<not_glu_vars>>

UpdateModelFn(rank) ==
    LET stop == UpdateStop(rank)
    IN  /\ w1' = IF stop \in {"w2", "ok"} THEN [w1 EXCEPT ![rank] = Absent] ELSE w1
        /\ v1' = IF stop \in {"w2", "ok"} THEN [v1 EXCEPT ![rank] = Absent] ELSE v1
        /\ w2' = IF stop = "ok" THEN [w2 EXCEPT ![rank] = Absent] ELSE w2
        /\ gate_up_weights' =
              IF stop = "ok"
              THEN [gate_up_weights EXCEPT ![rank] = GateUp(w1[rank], v1[rank])]
              ELSE gate_up_weights
        /\ down_weights' =
              IF stop = "ok"
              THEN [down_weights EXCEPT ![rank] = Down(w2[rank])]
              ELSE down_weights
        /\ glu_call' = [glu_call EXCEPT ![rank] =
                            [op |-> "update", outcome |-> UpdateOutcome(stop)]]
        /\ UNCHANGED <<not_glu_vars>>

\* ------------------------------------------------------------------------
\* PatchedDbrxAttention.forward / _contiguous_batching_forward_impl
\*
\* A token is <<slot, position>>: the cache slot of its sequence and its
\* 1-based position in the sequence.  Activations are symbolic: a value
\* records which projection of which token it is, whether it was clamped,
\* and the rotary embedding applied to it.
\* ------------------------------------------------------------------------

Slots == 1 .. MaxSeqs

\* rotary_emb.inv_freq is None
None == << >>

\* No rotary embedding applied.
NoRot == << >>

\* A cache position nothing was written to.
Stale == [part |-> "stale", tok |-> <<0, 0>>, clamped |-> FALSE, rot |-> NoRot]

NoContext ==
    [block_offsets |-> << >>, q_start_loc |-> << >>, q_seq_length |-> << >>,
     kv_seq_length |-> << >>, max_q_seq_length |-> 0, position_ids_1d |-> << >>]

RECURSIVE SumTo(_, _)
\* q[1] + ... + q[n]
SumTo(q, n) == IF n = 0 THEN 0 ELSE q[n] + SumTo(q, n - 1)

\* The sequence (1-based index into the batch) flat token k belongs to.
SeqOfToken(ctx, k) ==
    CHOOSE i \in 1 .. Len(ctx.q_seq_length) :
        /\ ctx.q_start_loc[i] < k
        /\ k <= ctx.q_start_loc[i] + ctx.q_seq_length[i]

\* Tokens already cached for sequence i before this call.
HistoryOf(ctx, i) == ctx.kv_seq_length[i] - ctx.q_seq_length[i]

\* The batch context the scheduler builds for sequences in `slots` with
\* `q` new tokens each, declaring `maxq` as the longest query.
MakeContext(slots, q, maxq) ==
    LET n == Len(slots)
        start == [i \in 1 .. n |-> SumTo(q, i - 1)]
        ctx0 == [block_offsets |-> slots, q_start_loc |-> start,
                 q_seq_length |-> q,
                 kv_seq_length |-> [i \in 1 .. n |-> history[slots[i]] + q[i]],
                 max_q_seq_length |-> maxq, position_ids_1d |-> << >>]
    IN  [ctx0 EXCEPT !.position_ids_1d =
            [k \in 1 .. SumTo(q, n) |->
                LET i == SeqOfToken(ctx0, k)
                IN  history[slots[i]] + (k - start[i]) - 1]]

\* The hidden states of the batch: one token per query position.
BatchTokens(ctx) ==
    [k \in 1 .. Len(ctx.position_ids_1d) |->
        <<ctx.block_offsets[SeqOfToken(ctx, k)], ctx.position_ids_1d[k] + 1>>]

\* A sequence is longer than the declared maximum.
Malformed(ctx) ==
    \E i \in 1 .. Len(ctx.q_seq_length) : ctx.q_seq_length[i] > ctx.max_q_seq_length

\* Mutant of NextStep: the paged attention runs before the cache is filled.
NextStepAttentionFirst(step) ==
    CASE step = "idle" -> "qkv_proj"
      [] step = "qkv_proj" -> "rotary"
      [] step = "rotary" -> "attn"
      [] step = "attn" -> "fill"
      [] step = "fill" -> "out_proj"
      [] step = "out_proj" -> "return"
      [] step = "return" -> "idle"

\* The statement order of _contiguous_batching_forward_impl, lines 108-141:
\* the step that follows `step`.
NextStep(step) ==
    CASE step = "idle" -> "qkv_proj"
      [] step = "qkv_proj" -> "rotary"
      [] step = "rotary" -> "fill"
      [] step = "fill" -> "attn"
      [] step = "attn" -> "out_proj"
      [] step = "out_proj" -> "return"
      [] step = "return" -> "idle"

\* forward() is entered with a batch: lines 55-64 read the context.
ForwardCall(slots, q, maxq) ==
    /\ pc = "idle"
    /\ Len(q) = Len(slots)
    /\ \A i, j \in 1 .. Len(slots) : i # j => slots[i] # slots[j]
    /\ \A i \in 1 .. Len(slots) : history[slots[i]] + q[i] <= MaxKv
    /\ context' = MakeContext(slots, q, maxq)
    /\ hidden_states' = BatchTokens(context')
    /\ pc' = NextStep(pc)
    /\ UNCHANGED <<attn_cfg_vars, inv_freq, cache_vars, history, query_states,
                   key_states, value_states, attn_result, not_attn_vars>>

\* self.Wqkv(hidden_states), clamped when clip_qkv is set, split in three.
Projection(part, tok) ==
    [part |-> part, tok |-> tok, clamped |-> clip_qkv, rot |-> NoRot]

\* __qkv_proj, line 108
QkvProj ==
    /\ pc = "qkv_proj"
    /\ query_states' = [k \in 1 .. Len(hidden_states) |-> Projection("q", hidden_states[k])]
    /\ key_states' = [k \in 1 .. Len(hidden_states) |-> Projection("k", hidden_states[k])]
    /\ value_states' = [k \in 1 .. Len(hidden_states) |-> Projection("v", hidden_states[k])]
    /\ pc' = NextStep(pc)
    /\ UNCHANGED <<attn_cfg_vars, inv_freq, cache_vars, history, context,
                   hidden_states, attn_result, not_attn_vars>>

\* 1.0 / (base ** (arange(0, dim, 2) / dim)): entry k stands for
\* 1 / base^(2(k-1)/dim), kept as the triple <<base, 2(k-1), dim>>.
InvFreq(base, dim) ==
    [k \in 1 .. CeilDiv(dim, 2) |-> <<base, 2 * (k - 1), dim>>]

\* fused_rotary_emb on one value: rotated by its position id with the table.
FusedRotaryEmb(x, position_id, table) ==
    [x EXCEPT !.rot = <<position_id, table>>]

\* Mutant of InvFreqAfter: the table is recomputed in every call, its base
\* rescaled by the longest sequence of the batch.
InvFreqAfterRescaled ==
    LET longest == CHOOSE n \in {context.kv_seq_length[i] : i \in 1 .. Len(context.kv_seq_length)} :
                       \A i \in 1 .. Len(context.kv_seq_length) : context.kv_seq_length[i] <= n
    IN  InvFreq(rotary_base * longest, rotary_dim)

\* rotary_emb.inv_freq after lines 90-96.
InvFreqAfter ==
    IF inv_freq = None THEN InvFreq(rotary_base, rotary_dim) ELSE inv_freq

\* __rotary_emb_fn, lines 110-111
RotaryEmbFn ==
    /\ pc = "rotary"
    /\ inv_freq' = InvFreqAfter
    /\ query_states' = [k \in 1 .. Len(query_states) |->
          FusedRotaryEmb(query_states[k], context.position_ids_1d[k], inv_freq')]
    /\ key_states' = [k \in 1 .. Len(key_states) |->
          FusedRotaryEmb(key_states[k], context.position_ids_1d[k], inv_freq')]
    /\ value_states' = value_states
    /\ pc' = NextStep(pc)
    /\ UNCHANGED <<attn_cfg_vars, cache_vars, history, context, hidden_states,
                   attn_result, not_attn_vars>>

\* How many tokens of each sequence a kernel launched with this context may
\* process: all of them, or, its grid being sized by the declared maximum,
\* the first max_q_seq_length.  The two agree unless the context is
\* malformed; then either may happen.
KernelTokenLimits(ctx) == {ctx.max_q_seq_length, MaxQ}

\* The kernel fill_kv_cache: the states of token t of sequence i go to
\* position history + t of the sequence's slot.
FillKvCacheKernel(cache, states, ctx, limit) ==
    [s \in Slots |-> [p \in 1 .. MaxKv |->
        IF \E i \in 1 .. Len(ctx.block_offsets) :
              /\ ctx.block_offsets[i] = s
              /\ (p - HistoryOf(ctx, i)) \in 1 .. Min(ctx.q_seq_length[i], limit)
        THEN LET i == CHOOSE i \in 1 .. Len(ctx.block_offsets) : ctx.block_offsets[i] = s
             IN  states[ctx.q_start_loc[i] + (p - HistoryOf(ctx, i))]
        ELSE cache[s][p]]]

\* fill_kv_cache(key_states, value_states, past_key_value[0],
\* past_key_value[1], ...), lines 113-123
FillKvCache ==
    /\ pc = "fill"
    /\ \E limit \in KernelTokenLimits(context) :
          /\ key_cache' = FillKvCacheKernel(key_cache, key_states, context, limit)
          /\ value_cache' = FillKvCacheKernel(value_cache, value_states, context, limit)
    /\ pc' = NextStep(pc)
    /\ UNCHANGED <<attn_cfg_vars, inv_freq, history, context, local_vars,
                   attn_result, not_attn_vars>>

\* The kernel paged_attention_fwd, writing over the query buffer: token t of
\* sequence i attends to cache positions 1 .. history + t of its slot.
PagedAttentionKernel(q, kc, vc, ctx, limit) ==
    [k \in 1 .. Len(q) |->
        LET i == SeqOfToken(ctx, k)
            t == k - ctx.q_start_loc[i]
            n == HistoryOf(ctx, i) + t
        IN  IF t <= limit
            THEN [part |-> "attn", q |-> q[k],
                  keys |-> [p \in 1 .. n |-> kc[ctx.block_offsets[i]][p]],
                  values |-> [p \in 1 .. n |-> vc[ctx.block_offsets[i]][p]]]
            ELSE q[k]]

\* attn_output = query_states; paged_attention_fwd(...), lines 125-136
PagedAttentionFwd ==
    /\ pc = "attn"
    /\ \E limit \in KernelTokenLimits(context) :
          query_states' = PagedAttentionKernel(query_states, key_cache,
                                               value_cache, context, limit)
    /\ pc' = NextStep(pc)
    /\ UNCHANGED <<attn_cfg_vars, inv_freq, cache_vars, history, context,
                   hidden_states, key_states, value_states, attn_result,
                   not_attn_vars>>

\* attn_output.reshape(...); attn_output = self.out_proj(attn_output),
\* lines 137-139
OutProj ==
    /\ pc = "out_proj"
    /\ attn_result' = [k \in 1 .. Len(query_states) |->
                          [part |-> "out_proj", x |-> query_states[k]]]
    /\ pc' = NextStep(pc)
    /\ UNCHANGED <<attn_cfg_vars, inv_freq, cache_vars, history, context,
                   local_vars, not_attn_vars>>

\* return attn_output, None, past_key_value (line 141): the caller takes the
\* output, the locals are gone, and the scheduler counts the tokens of the
\* call as cached.
Return ==
    /\ pc = "return"
    /\ history' = [s \in Slots |->
          IF \E i \in 1 .. Len(context.block_offsets) : context.block_offsets[i] = s
          THEN LET i == CHOOSE i \in 1 .. Len(context.block_offsets) :
                            context.block_offsets[i] = s
               IN  context.kv_seq_length[i]
          ELSE history[s]]
    /\ pc' = NextStep(pc)
    /\ context' = NoContext
    /\ hidden_states' = << >>
    /\ query_states' = << >>
    /\ key_states' = << >>
    /\ value_states' = << >>
    /\ attn_result' = << >>
    /\ UNCHANGED <<attn_cfg_vars, inv_freq, cache_vars, not_attn_vars>>

\* The batches the scheduler may hand to a call: one to MaxSeqs sequences.
RECURSIVE SeqsOver(_, _)
SeqsOver(S, n) ==
    IF n = 0 THEN {<< >>}
    ELSE {Append(x, e) : x \in SeqsOver(S, n - 1), e \in S}

Batches == UNION {SeqsOver(Slots, n) : n \in 1 .. MaxSeqs}

QueryLengths(n) == SeqsOver(1 .. MaxQ, n)

\* ------------------------------------------------------------------------
\* PatchedDbrxAttention._load_weights and the split of __qkv_proj (shapes)
\* ------------------------------------------------------------------------

\* sections of _load_weights, lines 24-28: the rows of Wqkv that are Q, K, V.
Sections ==
    <<num_heads * head_dim,
      num_key_value_heads * head_dim,
      num_key_value_heads * head_dim>>

\* colwise_split_parallelize_linear(self.Wqkv, sections, ...): every section
\* is cut in world_size equal pieces and the rank keeps its piece of each;
\* a section world_size does not divide is a sharding error.
ColwiseSplitOk(sections) ==
    \A i \in 1 .. Len(sections) : sections[i] % world_size = 0

ColwiseSplit(sections) ==
    [i \in 1 .. Len(sections) |-> sections[i] \div world_size]

\* rowwise_parallelize_linear(self.out_proj, ...): the input features are
\* cut in world_size equal pieces; a size world_size does not divide is a
\* sharding error.
RowwiseSplitOk(width) == width % world_size = 0

RowwiseSplit(width) == width \div world_size

\* _load_weights(loader, rank, world_size, device), lines 21-39
AttnLoadWeights(rank) ==
    LET ok1 == ColwiseSplitOk(Sections)
        ok2 == ok1 /\ RowwiseSplitOk(num_heads * head_dim)
    IN  /\ Wqkv' = IF ok1 THEN [Wqkv EXCEPT ![rank] = ColwiseSplit(Sections)] ELSE Wqkv
        /\ out_proj' = IF ok2
                       THEN [out_proj EXCEPT ![rank] = RowwiseSplit(num_heads * head_dim)]
                       ELSE out_proj
        /\ attn_load' = [attn_load EXCEPT ![rank] =
                            IF ok2 THEN "ok" ELSE "ShardingError"]
        /\ UNCHANGED <<num_heads, num_key_value_heads, head_dim, qkv_split,
                       not_qkv_vars>>

\* Mutant of SplitWidths: the K and V widths are taken from the query heads.
SplitWidthsFromQueryHeads ==
    LET heads == num_heads \div world_size
    IN  <<heads * head_dim, heads * head_dim, heads * head_dim>>

\* The sizes qkv_states.split is given, lines 62-64 and 73-80.
SplitWidths ==
    LET heads    == num_heads \div world_size
        kv_heads == num_key_value_heads \div world_size
    IN  <<heads * head_dim, kv_heads * head_dim, kv_heads * head_dim>>

\* __qkv_proj on rank's module, lines 66-85: split raises unless the sizes
\* add up to the width of the projection, and view(-1, n, head_dim) raises
\* for n = 0 heads.  The result is the three widths, or << >> after a raise.
QkvProjSplit(rank) ==
    LET width == Wqkv[rank][1] + Wqkv[rank][2] + Wqkv[rank][3]
        sizes == SplitWidths
        ok    == /\ sizes[1] + sizes[2] + sizes[3] = width
                 /\ num_heads \div world_size > 0
                 /\ num_key_value_heads \div world_size > 0
    IN  /\ qkv_split' = [qkv_split EXCEPT ![rank] =
              IF ok THEN [outcome |-> "ok", widths |-> sizes]
              ELSE [outcome |-> "RuntimeError", widths |-> << >>]]
        /\ UNCHANGED <<num_heads, num_key_value_heads, head_dim, Wqkv, out_proj,
                       attn_load, not_qkv_vars>>

\* The attention modules are constructed with their full weights.
AttentionShapesConstructed ==
    /\ Wqkv = [r \in Ranks |-> Sections]
    /\ out_proj = [r \in Ranks |-> num_heads * head_dim]
    /\ attn_load = [r \in Ranks |-> "none"]
    /\ qkv_split = [r \in Ranks |-> [outcome |-> "none", widths |-> << >>]]

\* ------------------------------------------------------------------------
\* PatchedDbrxModel._continuous_batching_forward on every rank, with the
\* output hooks of PatchedDbrxAttention and PatchedDbrxExperts
\*
\* rank_pc[r] = [layer, at]: the rank's pass is in block `layer`, about to
\* run step `at`:
\*   "attention"    the attention forward of the block
\*   "attn_hook"    PatchedDbrxAttention._distribute_output_fn
\*   "attn_reduce"  inside its dist.all_reduce
\*   "experts"      PatchedDbrxExperts.forward
\*   "moe_hook"     PatchedDbrxExperts._distribute_output_fn
\*   "moe_reduce"   inside its dist.all_reduce
\*   "norm_f"       after the last block
\*   "done"         returned
\* ------------------------------------------------------------------------

Data == 0 .. MaxData

At(rank, step) == rank_pc[rank].at = step

Goto(rank, layer, step) ==
    rank_pc' = [rank_pc EXCEPT ![rank] = [layer |-> layer, at |-> step]]

\* block.attn forward: the rank's partial output depends on its data.
AttentionForward(rank, data) ==
    /\ At(rank, "attention")
    /\ outputs' = [outputs EXCEPT ![rank] = data]
    /\ Goto(rank, rank_pc[rank].layer, "attn_hook")
    /\ UNCHANGED <<num_layers, entered, not_rank_vars>>

\* The sum over the ranks in S of f.
RECURSIVE SumOver(_, _)
SumOver(f, S) ==
    IF S = {} THEN 0
    ELSE LET x == CHOOSE x \in S : TRUE IN f[x] + SumOver(f, S \ {x})

\* dist.all_reduce(tensor) is entered: the rank hands in its tensor and
\* blocks.  The reduction is in place: when the last rank of the group has
\* entered, every rank's tensor holds the sum.
EnterAllReduce(rank, kind) ==
    /\ entered' = [entered EXCEPT ![rank] =
                      Append(@, [kind |-> kind, layer |-> rank_pc[rank].layer])]
    /\ outputs' =
          IF \A r \in Ranks \ {rank} : Len(entered[r]) > Len(entered[rank])
          THEN [r \in Ranks |-> SumOver(outputs, Ranks)]
          ELSE outputs

\* PatchedDbrxAttention._distribute_output_fn, lines 41-45
AttnDistributeOutputFn(rank) ==
    /\ At(rank, "attn_hook")
    /\ EnterAllReduce(rank, "attn")
    /\ Goto(rank, rank_pc[rank].layer, "attn_reduce")
    /\ UNCHANGED <<num_layers, not_rank_vars>>

\* A blocking all-reduce returns once every rank has entered it.
AllReduceReturns(rank, from, layer, to) ==
    /\ At(rank, from)
    /\ \A r \in Ranks : Len(entered[r]) >= Len(entered[rank])
    /\ Goto(rank, layer, to)
    /\ UNCHANGED <<num_layers, outputs, entered, not_rank_vars>>

\* dist.all_reduce(outputs[0]) of the attention hook returns (line 44).
AttnAllReduceReturns(rank) ==
    AllReduceReturns(rank, "attn_reduce", rank_pc[rank].layer, "experts")

\* PatchedDbrxExperts.forward, lines 215-230
ExpertsForward(rank, data) ==
    /\ At(rank, "experts")
    /\ outputs' = [outputs EXCEPT ![rank] = data]
    /\ Goto(rank, rank_pc[rank].layer, "moe_hook")
    /\ UNCHANGED <<num_layers, entered, not_rank_vars>>

\* Mutant of ExpertsDistributeOutputFn: the reduction is skipped by a rank
\* whose own output is all zero (no token was routed to it).
ExpertsDistributeOutputFnIfRouted(rank) ==
    /\ At(rank, "moe_hook")
    /\ IF outputs[rank] = 0
       THEN /\ entered' = entered
            /\ outputs' = outputs
            /\ IF rank_pc[rank].layer < num_layers
               THEN Goto(rank, rank_pc[rank].layer + 1, "attention")
               ELSE Goto(rank, rank_pc[rank].layer, "norm_f")
       ELSE /\ EnterAllReduce(rank, "moe")
            /\ Goto(rank, rank_pc[rank].layer, "moe_reduce")
    /\ UNCHANGED <<num_layers, not_rank_vars>>

\* PatchedDbrxExperts._distribute_output_fn, lines 209-213
ExpertsDistributeOutputFn(rank) ==
    /\ At(rank, "moe_hook")
    /\ EnterAllReduce(rank, "moe")
    /\ Goto(rank, rank_pc[rank].layer, "moe_reduce")
    /\ UNCHANGED <<num_layers, not_rank_vars>>

\* dist.all_reduce(outputs) of the experts hook returns (line 212); the
\* driver's loop goes to the next block or leaves (lines 254-266).
ExpertsAllReduceReturns(rank) ==
    IF rank_pc[rank].layer < num_layers
    THEN AllReduceReturns(rank, "moe_reduce", rank_pc[rank].layer + 1, "attention")
    ELSE AllReduceReturns(rank, "moe_reduce", rank_pc[rank].layer, "norm_f")

\* hidden_states = self.norm_f(hidden_states); return, lines 268-275
NormF(rank) ==
    /\ At(rank, "norm_f")
    /\ Goto(rank, rank_pc[rank].layer, "done")
    /\ UNCHANGED <<num_layers, outputs, entered, not_rank_vars>>

\* Every rank is about to run the first block (after self.wte, line 246).
RanksConstructed ==
    /\ rank_pc = [r \in Ranks |-> [layer |-> 1, at |-> "attention"]]
    /\ outputs = [r \in Ranks |-> 0]
    /\ entered = [r \in Ranks |-> << >>]

\* The attention module is constructed and has run no forward.
AttentionConstructed ==
    /\ inv_freq = None
    /\ key_cache = [s \in Slots |-> [p \in 1 .. MaxKv |-> Stale]]
    /\ value_cache = [s \in Slots |-> [p \in 1 .. MaxKv |-> Stale]]
    /\ history = [s \in Slots |-> 0]
    /\ context = NoContext
    /\ pc = "idle"
    /\ hidden_states = << >>
    /\ query_states = << >>
    /\ key_states = << >>
    /\ value_states = << >>
    /\ attn_result = << >>

\* The expert modules are constructed and no call was made on them.
ExpertsConstructed ==
    /\ w1 = [r \in Ranks |-> Uninitialized]
    /\ v1 = [r \in Ranks |-> Uninitialized]
    /\ w2 = [r \in Ranks |-> Uninitialized]
    /\ gate_up_weights = [r \in Ranks |-> Absent]
    /\ down_weights = [r \in Ranks |-> Absent]
    /\ glu_call = [r \in Ranks |-> [op |-> "init", outcome |-> "ok"]]

\* ------------------------------------------------------------------------
\* SpecAttention
\* ------------------------------------------------------------------------

InitAttention ==
    /\ rotary_base \in 1 .. MaxRotaryBase
    /\ rotary_dim \in 1 .. MaxRotaryDim
    /\ clip_qkv \in BOOLEAN
    /\ AttentionConstructed
    /\ moe_num_experts = 1 /\ ffn_hidden_size = 1 /\ hidden_size = 1
    /\ world_size = 1
    /\ ExpertsConstructed
    /\ num_heads = 1 /\ num_key_value_heads = 1 /\ head_dim = 1
    /\ AttentionShapesConstructed
    /\ num_layers = 1
    /\ RanksConstructed

NextAttention ==
    \/ \E slots \in Batches : \E q \in QueryLengths(Len(slots)) :
          \E maxq \in 1 .. MaxQ : ForwardCall(slots, q, maxq)
    \/ QkvProj
    \/ RotaryEmbFn
    \/ FillKvCache
    \/ PagedAttentionFwd
    \/ OutProj
    \/ Return

SpecAttention == InitAttention /\ [][NextAttention]_vars

\* ------------------------------------------------------------------------
\* SpecExperts
\* ------------------------------------------------------------------------

\* The weight sources a call of _load_weights is given: a complete
\* checkpoint, or one whose expert shard lacks the last tensor.
Loaders == {{"w1", "v1", "w2"}, {"w1", "v1"}}

InitExperts ==
    /\ moe_num_experts \in 1 .. MaxExperts
    /\ ffn_hidden_size \in 1 .. MaxFfn
    /\ hidden_size \in 1 .. MaxHidden
    /\ world_size \in 1 .. MaxWorld
    /\ ExpertsConstructed
    /\ rotary_base = 1 /\ rotary_dim = 1 /\ clip_qkv = FALSE
    /\ AttentionConstructed
    /\ num_heads = 1 /\ num_key_value_heads = 1 /\ head_dim = 1
    /\ AttentionShapesConstructed
    /\ num_layers = 1
    /\ RanksConstructed

NextExperts ==
    \/ \E r \in Ranks, names \in Loaders : LoadWeights(r, names)
    \/ \E r \in Ranks : UpdateModelFn(r)

SpecExperts == InitExperts /\ [][NextExperts]_vars

\* ------------------------------------------------------------------------
\* SpecQKV
\* ------------------------------------------------------------------------

InitQKV ==
    /\ num_heads \in 1 .. MaxHeads
    /\ num_key_value_heads \in 1 .. num_heads
    /\ head_dim \in 1 .. MaxHeadDim
    /\ world_size \in 1 .. MaxWorld
    /\ AttentionShapesConstructed
    /\ moe_num_experts = 1 /\ ffn_hidden_size = 1 /\ hidden_size = 1
    /\ ExpertsConstructed
    /\ rotary_base = 1 /\ rotary_dim = 1 /\ clip_qkv = FALSE
    /\ AttentionConstructed
    /\ num_layers = 1
    /\ RanksConstructed

NextQKV ==
    \/ \E r \in Ranks : AttnLoadWeights(r)
    \/ \E r \in Ranks : QkvProjSplit(r)

SpecQKV == InitQKV /\ [][NextQKV]_vars

\* ------------------------------------------------------------------------
\* SpecRanks: the rank group of a sharded model (world_size >= 2), where
\* both output hooks are installed
\* ------------------------------------------------------------------------

InitRanks ==
    /\ world_size \in 2 .. MaxWorld
    /\ num_layers \in 1 .. MaxLayers
    /\ RanksConstructed
    /\ moe_num_experts = 1 /\ ffn_hidden_size = 1 /\ hidden_size = 1
    /\ ExpertsConstructed
    /\ rotary_base = 1 /\ rotary_dim = 1 /\ clip_qkv = FALSE
    /\ AttentionConstructed
    /\ num_heads = 1 /\ num_key_value_heads = 1 /\ head_dim = 1
    /\ AttentionShapesConstructed

NextRanks ==
    \/ \E r \in Ranks, d \in Data : AttentionForward(r, d)
    \/ \E r \in Ranks : AttnDistributeOutputFn(r)
    \/ \E r \in Ranks : AttnAllReduceReturns(r)
    \/ \E r \in Ranks, d \in Data : ExpertsForward(r, d)
    \/ \E r \in Ranks : ExpertsDistributeOutputFn(r)
    \/ \E r \in Ranks : ExpertsAllReduceReturns(r)
    \/ \E r \in Ranks : NormF(r)

SpecRanks == InitRanks /\ [][NextRanks]_vars

\* ------------------------------------------------------------------------
\* Properties of SpecExperts
\* ------------------------------------------------------------------------

ParamOf(name, r) ==
    IF name = "w1" THEN w1[r] ELSE IF name = "v1" THEN v1[r] ELSE w2[r]

\* The checkpoint rows of tensor `name` that rank r's parameter `name` holds.
HeldRows(name, r) ==
    LET t == ParamOf(name, r)
    IN  {t[k][1][2] : k \in {x \in 1 .. Len(t) : t[x][1][1] = name}}

\* Checkpoint row of expert e (1-based), row f (1-based) within the expert.
RowOf(e, f) == (e - 1) * ffn_hidden_size + f

AllRows == 1 .. (moe_num_experts * ffn_hidden_size)

ExpertRows(e) == {RowOf(e, f) : f \in 1 .. ffn_hidden_size}

Experts == 1 .. moe_num_experts

LoadedOk(r) == glu_call[r] = [op |-> "load", outcome |-> "ok"]

LoadReturned(r) ==
    /\ glu_call[r].op = "load"
    /\ glu_call[r].outcome \in {"ok", "IndexError"}

\* C2 as claimed: sharding along the expert axis.  Every rank whose load
\* succeeded holds, of each tensor, all rows of some experts and no row of
\* the others; the ranks' row sets are pairwise disjoint and, once every
\* rank has loaded, cover all experts.
C2_ExpertAxisSharding ==
    /\ \A r \in Ranks : LoadedOk(r) =>
          \A n \in {"w1", "v1", "w2"} : \A e \in Experts :
              \/ ExpertRows(e) \subseteq HeldRows(n, r)
              \/ ExpertRows(e) \cap HeldRows(n, r) = {}
    /\ \A r1, r2 \in Ranks : (r1 # r2 /\ LoadedOk(r1) /\ LoadedOk(r2)) =>
          \A n \in {"w1", "v1", "w2"} : HeldRows(n, r1) \cap HeldRows(n, r2) = {}
    /\ (\A r \in Ranks : LoadReturned(r)) =>
          \A n \in {"w1", "v1", "w2"} :
              UNION {HeldRows(n, r) : r \in {x \in Ranks : LoadedOk(x)}} = AllRows

\* C2 as amended: sharding along the per-expert row (ffn_hidden_size) axis.
\* Every rank whose load succeeded holds, of each tensor and of EVERY
\* expert, exactly the rows of torch.chunk's piece number `rank`, in order;
\* the ranks' row sets are pairwise disjoint and, once every rank has
\* loaded, cover every row of every expert.
C2_FfnAxisSharding ==
    /\ \A r \in Ranks : LoadedOk(r) =>
          \A n \in {"w1", "v1", "w2"} :
              LET lo == ChunkLo(ffn_hidden_size, world_size, r)
                  hi == ChunkHi(ffn_hidden_size, world_size, r)
                  k  == hi - lo + 1
                  t  == ParamOf(n, r)
              IN  /\ k >= 1
                  /\ Len(t) = moe_num_experts * k
                  /\ \A e \in Experts : \A f \in 1 .. k : \A j \in 1 .. hidden_size :
                        t[(e - 1) * k + f][j] = <<n, RowOf(e, lo + f - 1), j>>
    /\ \A r1, r2 \in Ranks : (r1 # r2 /\ LoadedOk(r1) /\ LoadedOk(r2)) =>
          \A n \in {"w1", "v1", "w2"} : HeldRows(n, r1) \cap HeldRows(n, r2) = {}
    /\ (\A r \in Ranks : LoadReturned(r)) =>
          \A n \in {"w1", "v1", "w2"} :
              UNION {HeldRows(n, r) : r \in {x \in Ranks : LoadedOk(x)}} = AllRows

\* C2's case: two ranks have loaded two experts of two rows each, and each
\* holds one row of every expert.
C2_Witness ==
    /\ world_size = 2 /\ moe_num_experts = 2 /\ ffn_hidden_size = 2
    /\ \A r \in Ranks : LoadedOk(r)
    /\ HeldRows("w1", 0) = {RowOf(1, 1), RowOf(2, 1)}
    /\ HeldRows("w2", 1) = {RowOf(1, 2), RowOf(2, 2)}

HasLoadRepr(r) == w1[r] # Absent \/ v1[r] # Absent \/ w2[r] # Absent

HasComputeRepr(r) == gate_up_weights[r] # Absent \/ down_weights[r] # Absent

\* The module holds the compute representation and nothing else.
Repacked(r) ==
    /\ gate_up_weights[r] # Absent /\ down_weights[r] # Absent
    /\ ~HasLoadRepr(r)

ModuleState(r) == <<w1[r], v1[r], w2[r], gate_up_weights[r], down_weights[r]>>

\* A step that is a call of _update_model_fn on rank r's module.
UpdateStepOn(r) ==
    /\ glu_call'[r].op = "update"
    /\ <<ModuleState(r), glu_call[r]>>' # <<ModuleState(r), glu_call[r]>>

\* C3: _update_model_fn on a module that is already repacked fails, and
\* leaves gate_up_weights, down_weights and everything else of the module
\* as they were.
C3_SecondRepackFails ==
    [][\A r \in Ranks : (Repacked(r) /\ UpdateStepOn(r)) =>
            /\ glu_call'[r].outcome = "AttributeError"
            /\ ModuleState(r)' = ModuleState(r)]_vars

\* C3's case: the repack was called on a repacked module that holds
\* checkpoint data, and it failed.
C3_Witness ==
    \E r \in Ranks :
        /\ Repacked(r)
        /\ glu_call[r] = [op |-> "update", outcome |-> "AttributeError"]
        /\ gate_up_weights[r][1][1][1][1] = "w1"

C5_RepackLayout ==
    [][\A r \in Ranks :
          (UpdateStepOn(r) /\ glu_call'[r].outcome = "ok") =>
              LET ffn == Len(w1[r]) \div moe_num_experts
                  dwn == Len(w2[r]) \div moe_num_experts
                  hid == Len(w1[r][1])
                  g   == gate_up_weights'[r]
                  d   == down_weights'[r]
              IN  /\ Len(g) = moe_num_experts /\ Len(d) = moe_num_experts
                  /\ \A e \in Experts :
                        /\ Len(g[e]) = 2 * ffn
                        /\ \A i \in 1 .. ffn : \A j \in 1 .. hid :
                              /\ g[e][i][j] = w1[r][(e - 1) * ffn + i][j]
                              /\ g[e][ffn + i][j] = v1[r][(e - 1) * ffn + i][j]
                        /\ Len(d[e]) = Len(w2[r][1])
                        /\ \A i \in 1 .. Len(w2[r][1]) :
                              /\ Len(d[e][i]) = dwn
                              /\ \A j \in 1 .. dwn :
                                    d[e][i][j] = w2[r][(e - 1) * dwn + j][i]]_vars

\* C5's case: a shard of two experts, two rows each, two columns, was
\* repacked: the second expert's first value row and its transposed down
\* block come from the checkpoint rows of that expert.
C5_Witness ==
    \E r \in Ranks :
        /\ world_size = 2 /\ moe_num_experts = 2 /\ hidden_size = 2
        /\ ffn_hidden_size = 3 /\ r = 0
        /\ glu_call[r] = [op |-> "update", outcome |-> "ok"]
        /\ gate_up_weights[r][2][3] = << <<"v1", 4, 1>>, <<"v1", 4, 2>> >>
        /\ down_weights[r][2] = << <<<<"w2", 4, 1>>, <<"w2", 5, 1>>>>,
                                   <<<<"w2", 4, 2>>, <<"w2", 5, 2>>>> >>

\* C6 as claimed, for the expert tensors: when ffn_hidden_size (the size of
\* the split axis) is not divisible by world_size, _load_weights fails with
\* a sharding error and installs no shard.
C6_UnevenSplitRejected ==
    \A r \in Ranks :
        (ffn_hidden_size % world_size # 0 /\ glu_call[r].op = "load") =>
            /\ glu_call[r].outcome = "ShardingError"
            /\ \A n \in {"w1", "v1", "w2"} : HeldRows(n, r) = {}

\* ------------------------------------------------------------------------
\* Properties of SpecAttention
\* ------------------------------------------------------------------------

\* The forward call in progress is past its rotary embedding.
PastRotary == pc \in {"fill", "attn", "out_proj", "return"}

\* The forward call in progress has invoked fill_kv_cache.
PastFill == pc \in {"attn", "out_proj", "return"}

\* The forward call in progress has invoked paged_attention_fwd.
PastAttention == pc \in {"out_proj", "return"}

\* C7: rotary_emb.inv_freq is unset or the table of (base, dim); once set
\* it never changes; and every call past its rotary embedding has the table
\* set and has rotated its queries and keys with exactly that table.
C7_InvFreqComputedOnce ==
    /\ [](inv_freq \in {None, InvFreq(rotary_base, rotary_dim)})
    /\ [](PastRotary =>
            /\ inv_freq # None
            /\ \A k \in 1 .. Len(key_states) : key_states[k].rot[2] = inv_freq)
    /\ [][inv_freq # None => inv_freq' = inv_freq]_vars

\* C7's case: a later call, whose position ids differ from the first
\* call's, has done its rotary embedding with the cached table.
C7_Witness ==
    /\ pc = "fill"
    /\ context.position_ids_1d[1] > 0
    /\ key_cache[context.block_offsets[1]][1].rot = <<0, inv_freq>>
    /\ key_states[1].rot = <<context.position_ids_1d[1], inv_freq>>

\* C8 as claimed: with a malformed batch context no kernel is dispatched:
\* the call never gets past fill_kv_cache.
C8_MalformedRejected == Malformed(context) => ~PastFill

\* The cache slot and position of flat token k of the call in progress.
SlotOf(k) == context.block_offsets[SeqOfToken(context, k)]

PositionOf(k) == context.position_ids_1d[k] + 1

Sum3(x) == x[1] + x[2] + x[3]

\* C10 as claimed: on every rank whose _load_weights succeeded, for all
\* head counts, head widths and world sizes, the three split widths of the
\* forward are the rank's shares of the three sections, they add up to the
\* width of the local Wqkv, and the rank has at least one KV head.
C10_SplitWidthsMatchShards ==
    \A r \in Ranks : attn_load[r] = "ok" =>
        /\ SplitWidths = Wqkv[r]
        /\ \A i \in 1 .. 3 : SplitWidths[i] * world_size = Sections[i]
        /\ Sum3(SplitWidths) = Sum3(Wqkv[r])
        /\ num_key_value_heads \div world_size >= 1

\* C10 as amended: the same, whenever world_size divides both num_heads
\* and num_key_value_heads.
C10_SplitWidthsMatchShardsIfHeadsDivide ==
    \A r \in Ranks :
        (/\ attn_load[r] = "ok"
         /\ num_heads % world_size = 0
         /\ num_key_value_heads % world_size = 0) =>
            /\ SplitWidths = Wqkv[r]
            /\ \A i \in 1 .. 3 : SplitWidths[i] * world_size = Sections[i]
            /\ Sum3(SplitWidths) = Sum3(Wqkv[r])
            /\ num_key_value_heads \div world_size >= 1

\* C10's case: four query heads and two KV heads of width two on two ranks;
\* a rank has loaded its shard and its forward has split it 4 + 2 + 2.
C10_Witness ==
    /\ world_size = 2 /\ num_heads = 4 /\ num_key_value_heads = 2 /\ head_dim = 2
    /\ attn_load[1] = "ok"
    /\ Wqkv[1] = <<4, 2, 2>>
    /\ qkv_split[1] = [outcome |-> "ok", widths |-> <<4, 2, 2>>]

\* ------------------------------------------------------------------------
\* Properties of SpecRanks
\* ------------------------------------------------------------------------

\* The all-reduce a forward pass enters as its k-th: the attention-output
\* reduction and then the expert-output reduction of block 1, 2, ...
KthAllReduce(k) ==
    [kind |-> IF k % 2 = 1 THEN "attn" ELSE "moe", layer |-> (k + 1) \div 2]

AllDone == \A r \in Ranks : At(r, "done")

\* C1: whatever the data, the k-th all-reduce a rank enters is the k-th of
\* the pass (attention then experts, block after block); a rank that has
\* returned has entered all 2 * num_layers of them; and the group is never
\* stuck: until every rank has returned, some rank can take a step.
C1_ReductionsInLockstep ==
    /\ \A r \in Ranks : \A k \in 1 .. Len(entered[r]) :
          /\ entered[r][k].kind = KthAllReduce(k).kind
          /\ entered[r][k].layer = KthAllReduce(k).layer
    /\ \A r \in Ranks : At(r, "done") => Len(entered[r]) = 2 * num_layers
    /\ AllDone \/ ENABLED NextRanks

\* C1's case: in the last block of a two-block pass, rank 0, whose expert
\* output is all zero, is inside the expert all-reduce (its fourth), while
\* rank 1, whose output is not zero, is about to enter it.
C1_Witness ==
    /\ num_layers = 2
    /\ rank_pc[0] = [layer |-> 2, at |-> "moe_reduce"]
    /\ outputs[0] = 0
    /\ Len(entered[0]) = 4
    /\ rank_pc[1] = [layer |-> 2, at |-> "moe_hook"]
    /\ outputs[1] = 1

==========================================================================
